---------------------------- MODULE Spec2Model ----------------------------
(***************************************************************************)
(* DelayedWriter (src/mod.ts, the variant with input, lines 130-296): a    *)
(* queue of operation factories built by wait/write/input and drained by   *)
(* do, one operation at a time, with cooperative cancellation through an   *)
(* AbortSignal.                                                            *)
(*                                                                         *)
(* JavaScript runs each handler to completion, so an action is the code    *)
(* that runs between two suspension points: a builder call, the part of do *)
(* up to its first await, the continuation of do after an await, a timer   *)
(* callback, the dispatch of the abort event, the settlement of a write or *)
(* of a read.                                                              *)
(*                                                                         *)
(* One do call is in flight at a time: spec section 5 declares concurrent  *)
(* do calls on one instance unsupported, and the model does not make them. *)
(***************************************************************************)
EXTENDS Integers, Sequences, FiniteSets, TLC

VARIABLES
    operationQueue, \* DelayedWriter.operationQueue: the factories, as descriptors
    time,           \* DelayedWriter.time: the default interval
    isExecuting,    \* DelayedWriter.isExecuting
    inputs,         \* DelayedWriter.inputs: lines collected by the running do
    pc,             \* position of the do call: "idle" or "awaiting" (at `await promise`)
    abort,          \* do's parameter: TRUE when a signal was supplied
    index,          \* position of the for-of iterator in operationQueue
    lastCancelFn,   \* do's local lastCancelFn
    promise,        \* the pending result of the operation in flight
    aborted,        \* AbortSignal.aborted
    listeners,      \* the "abort" listeners registered on the signal
    timers,         \* handles of the timers started and neither fired nor cleared
    started,        \* history: the queue as it was when the last do call began
    invoked,        \* history: queue positions whose factory the last do invoked, in order
    effects,        \* history: timers started, writes issued, reads issued by the last do
    sourceLog,      \* history: values the source yielded to the last do, in order
    outstanding,    \* history: number of pending results created and not yet settled
    result,         \* history: how the last do call ended
    previous,       \* history: how the do call before it ended, if no builder call came between
    activated,      \* history: where the last do call was when its signal activated
    previousLines,  \* history: the number of lines that do call collected
    call            \* history: the builder call just made, if the last step was one

vars == <<operationQueue, time, isExecuting, inputs, pc, abort, index,
          lastCancelFn, promise, aborted, listeners, timers, started, invoked,
          effects, sourceLog, outstanding, result, previous, activated,
          previousLines, call>>

-----------------------------------------------------------------------------
(* Bounds of the model *)

\* longest queue a do call is given
MaxQueue == 3
\* longest queue a builder call leaves when the builders are checked alone
MaxBuilt == 4
\* longest text or prompt, in code points
MaxTextLen == 2

\* constructor default of `time` (src/mod.ts:152)
DefaultTime == 500

\* durations handed to the builder calls
Durations == {0, 3}

\* code points of the texts: one of one UTF-16 code unit, one outside the BMP
BmpChars == {"a"}
AstralChars == {"U+1F600"}
Chars == BmpChars \cup AstralChars

Texts == UNION {[1..n -> Chars] : n \in 0..MaxTextLen}

\* an optional argument: omitted, or given with a value
Omitted == [given |-> FALSE, v |-> 0]
Given(x) == [given |-> TRUE, v |-> x]
OptTimes == {Omitted} \cup {Given(d) : d \in Durations}

\* values the source can yield to one read: a line's bytes, or undefined at end of input
Undefined == "undefined"
SourceValues == {"l1", Undefined}

\* failures of the sink and the source
IOErrors == {"BrokenPipe", "BadResource"}

-----------------------------------------------------------------------------
(* Strings, numbers and the text codec *)

\* String.prototype.length: the number of UTF-16 code units, two for a code
\* point outside the BMP
RECURSIVE StringLength(_)
StringLength(text) ==
    IF text = <<>> THEN 0
    ELSE (IF Head(text) \in AstralChars THEN 2 ELSE 1) + StringLength(Tail(text))

\* (time / text.length) | 0 for a duration >= 0: the quotient cut to an
\* integer; a division by 0 gives Infinity or NaN, which | 0 turns into 0
delayBetweenLetters(t, text) ==
    IF StringLength(text) = 0 THEN 0 ELSE t \div StringLength(text)

\* TextDecoder.decode: the line's text, and "" for undefined
decode(value) == IF value = Undefined THEN "" ELSE "text:" \o value

-----------------------------------------------------------------------------
(* Operation factories, as descriptors of what their invocation will do *)

WaitOp(t) == [kind |-> "wait", time |-> t, text |-> <<>>]
TextOp(text) == [kind |-> "text", time |-> 0, text |-> text]
InputOp == [kind |-> "input", time |-> 0, text |-> <<>>]

pushWaitOperation(queue, t) == Append(queue, WaitOp(t))

pushTextOperation(queue, text) == Append(queue, TextOp(text))

\* the flag of the loop of pushWriteOperation after a letter: the branch that
\* would set it is the else of `if (!first)`, taken only once it is set
FirstAfterLetter(first) == IF ~first THEN first ELSE TRUE

\* the for-of loop of pushWriteOperation over the code points of `letters`
RECURSIVE WriteLoop(_, _, _, _)
WriteLoop(queue, letters, delay, first) ==
    IF letters = <<>> THEN queue
    ELSE LET q1 == IF ~first THEN pushWaitOperation(queue, delay) ELSE queue
             q2 == pushTextOperation(q1, <<Head(letters)>>)
         IN  WriteLoop(q2, Tail(letters), delay, FirstAfterLetter(first))

\* seeded fault: a duration of 0 is paced like any other
pushWriteOperationAlwaysPaced(queue, text, t) ==
    WriteLoop(queue, text, delayBetweenLetters(t, text), FALSE)

pushWriteOperation(queue, text, t) ==
    IF t = 0 THEN pushTextOperation(queue, text)
    ELSE WriteLoop(queue, text, delayBetweenLetters(t, text), FALSE)

\* `prompt` is optional; undefined and "" are both falsy
pushInputOperation(queue, prompt, t) ==
    LET q1 == IF prompt.given /\ prompt.v # <<>>
              THEN pushWriteOperation(queue, prompt.v, t)
              ELSE queue
    IN  Append(q1, InputOp)

\* seeded fault: an omitted duration falls back to the constructor's default
TimeArgDefault(arg) == IF arg.given THEN arg.v ELSE DefaultTime

\* the default parameter `time = this.time`
TimeArg(arg) == IF arg.given THEN arg.v ELSE time

\* seeded fault: the guard is missing
assertNotExecutingMissing == TRUE

assertNotExecuting == ~isExecuting

-----------------------------------------------------------------------------
(* Values of the do call *)

\* cancel callbacks: the module's one `noop`, a closure `clearFn` per timer,
\* and the value of do's lastCancelFn before its first assignment
noop == [fn |-> "noop", handle |-> 0]
ClearFn(h) == [fn |-> "clearFn", handle |-> h]
NoFn == [fn |-> "undefined", handle |-> 0]

Pending == [state |-> "pending", reason |-> "none"]
Fulfilled == [state |-> "fulfilled", reason |-> "none"]
Rejected(reason) == [state |-> "rejected", reason |-> reason]

\* new DelayedWriterError("operation canceled")
CanceledError == "DelayedWriterError"

NoResult == [kind |-> "none", value |-> <<>>, reason |-> "none"]
Resolved(value) == [kind |-> "resolved", value |-> value, reason |-> "none"]
Threw(reason) == [kind |-> "rejected", value |-> <<>>, reason |-> reason]

\* the builder call just made: its name, how it ended, and its arguments
NoCall == [kind |-> "none", outcome |-> "none", text |-> <<>>, hasText |-> FALSE,
           arg |-> Omitted]
MisuseCall(kind) == [NoCall EXCEPT !.kind = kind, !.outcome = "misuse"]
OkCall(kind, text, hasText, arg) ==
    [kind |-> kind, outcome |-> "ok", text |-> text, hasText |-> hasText, arg |-> arg]

\* the signal of the last do call: not activated since the call began,
\* activated before it began, or activated with the operation at `index`
\* in flight and its pending result in `state`
NoActivation == [index |-> 0, state |-> "none"]
ActivatedBefore == [index |-> 0, state |-> "before"]

\* setTimeout returns a handle that no live timer and no cancel callback
\* still registered has
FreshHandle ==
    LET used == timers \cup {fn.handle : fn \in listeners}
    IN  CHOOSE h \in 1..(Cardinality(used) + 1) : h \notin used

\* what invoking a factory starts
Effect(op) ==
    CASE op.kind = "wait" -> [kind |-> "timer", time |-> op.time, text |-> <<>>]
      [] op.kind = "text" -> [kind |-> "write", time |-> 0, text |-> op.text]
      [] OTHER -> [kind |-> "read", time |-> 0, text |-> <<>>]

-----------------------------------------------------------------------------
(* Builder calls *)

doVars == <<pc, abort, index, lastCancelFn, promise, aborted, listeners, timers>>
histVars == <<started, invoked, effects, sourceLog, outstanding, result, previous,
              activated, previousLines>>

\* the histories of the last do call end with the first builder call that
\* starts the next build
NewBuild ==
    /\ started' = <<>>
    /\ invoked' = <<>>
    /\ effects' = <<>>
    /\ sourceLog' = <<>>
    /\ result' = NoResult
    /\ previous' = "none"
    /\ activated' = NoActivation
    /\ previousLines' = 0
    /\ UNCHANGED outstanding

\* a builder call that throws at assertNotExecuting
Misuse(kind) ==
    /\ ~assertNotExecuting
    /\ call' = MisuseCall(kind)
    /\ UNCHANGED <<operationQueue, time, isExecuting, inputs>>
    /\ UNCHANGED doVars
    /\ UNCHANGED histVars

\* seeded fault: the builder starts a timer instead of queueing a factory's work
BuiltEager(kind, queue, text, hasText, arg) ==
    /\ assertNotExecuting
    /\ time' = TimeArg(arg)
    /\ operationQueue' = queue
    /\ call' = OkCall(kind, text, hasText, arg)
    /\ timers' = timers \cup {FreshHandle}
    /\ UNCHANGED <<isExecuting, inputs>>
    /\ UNCHANGED <<pc, abort, index, lastCancelFn, promise, aborted, listeners>>
    /\ NewBuild

\* a builder call that passes the guard and leaves `queue`
Built(kind, queue, text, hasText, arg) ==
    /\ assertNotExecuting
    /\ time' = TimeArg(arg)
    /\ operationQueue' = queue
    /\ call' = OkCall(kind, text, hasText, arg)
    /\ UNCHANGED <<isExecuting, inputs>>
    /\ UNCHANGED doVars
    /\ NewBuild

wait(arg) ==
    \/ Misuse("wait")
    \/ Built("wait", pushWaitOperation(operationQueue, TimeArg(arg)), <<>>, FALSE, arg)

write(text, arg) ==
    \/ Misuse("write")
    \/ Built("write", pushWriteOperation(operationQueue, text, TimeArg(arg)),
             text, TRUE, arg)

input(prompt, arg) ==
    \/ Misuse("input")
    \/ Built("input", pushInputOperation(operationQueue, prompt, TimeArg(arg)),
             IF prompt.given THEN prompt.v ELSE <<>>, prompt.given, arg)

-----------------------------------------------------------------------------
(* do *)

\* abort?.addEventListener("abort", fn) and abort?.removeEventListener("abort", fn):
\* nothing without a signal; the listener list holds a callback once
addEventListener(ls, sig, fn) == IF sig THEN ls \cup {fn} ELSE ls
\* seeded fault: the callback stays registered
removeEventListenerForgotten(ls, sig, fn) == ls
removeEventListener(ls, sig, fn) == IF sig THEN ls \ {fn} ELSE ls

\* seeded fault: the promise is not awaited
SettledNotAwaited(p) == TRUE

\* `await promise` resumes do once the promise is settled
Settled(p) == p.state # "pending"

\* seeded fault: the catch rethrows whatever it caught
IsDelayedWriterErrorNever(reason) == FALSE

\* err instanceof DelayedWriterError
IsDelayedWriterError(reason) == reason = CanceledError

\* the for-of iterator: the position after i, and whether the array has it
NextPosition(i) == i + 1

\* seeded fault: the loop stops one operation early
HasPositionBeforeLast(i) == i < Len(operationQueue)

HasPosition(i) == i <= Len(operationQueue)

\* seeded fault: the queue is not emptied
cleanupKeepsQueue(ls, sig) ==
    /\ listeners' = removeEventListener(ls, sig, lastCancelFn)
    /\ operationQueue' = operationQueue
    /\ inputs' = <<>>
    /\ isExecuting' = FALSE

\* seeded fault: the collected inputs are copied, not taken
cleanupKeepsInputs(ls, sig) ==
    /\ listeners' = removeEventListener(ls, sig, lastCancelFn)
    /\ operationQueue' = <<>>
    /\ inputs' = inputs
    /\ isExecuting' = FALSE

\* the closure cleanup of do, run with listener set ls and signal sig: it
\* hands the collected inputs to do's local `inputs`
cleanup(ls, sig) ==
    /\ listeners' = removeEventListener(ls, sig, lastCancelFn)
    /\ operationQueue' = <<>>
    /\ inputs' = <<>>
    /\ isExecuting' = FALSE

\* the end of a do call: its frame is gone
Leave ==
    /\ pc' = "idle"
    /\ abort' = FALSE
    /\ index' = 0
    /\ lastCancelFn' = NoFn
    /\ promise' = Fulfilled

\* cleanup(); return inputs
ReturnInputs(ls, sig) ==
    /\ cleanup(ls, sig)
    /\ result' = Resolved(inputs)
    /\ Leave
    /\ UNCHANGED timers

\* seeded fault: the failure is swallowed like a cancellation
RethrowSwallowed(ls, sig, err) == ReturnInputs(ls, sig)

\* seeded fault: the failure is rethrown without cleanup
RethrowWithoutCleanup(ls, sig, err) ==
    /\ result' = Threw(err)
    /\ Leave
    /\ UNCHANGED <<operationQueue, inputs, isExecuting, listeners, timers>>

\* cleanup(); throw err
Rethrow(ls, sig, err) ==
    /\ cleanup(ls, sig)
    /\ result' = Threw(err)
    /\ Leave
    /\ UNCHANGED timers

\* seeded fault: a cancel registered on an activated signal runs at once
InvokeAbortedRejects(i, ls, sig) ==
    LET op == operationQueue[i]
        handle == FreshHandle
        cancel == IF op.kind = "wait" THEN ClearFn(handle) ELSE noop
        runs == sig /\ aborted /\ op.kind = "wait"
    IN  /\ timers' = IF op.kind = "wait" /\ ~runs THEN timers \cup {handle} ELSE timers
        /\ lastCancelFn' = cancel
        /\ listeners' = addEventListener(ls, sig, cancel)
        /\ promise' = IF runs THEN Rejected(CanceledError) ELSE Pending
        /\ index' = i
        /\ pc' = "awaiting"
        /\ abort' = sig
        /\ UNCHANGED <<operationQueue, inputs>>

\* one pass of the loop body up to its await: the factory at position i is
\* invoked, its cancel is kept and registered, and do is suspended
Invoke(i, ls, sig) ==
    LET op == operationQueue[i]
        handle == FreshHandle
        cancel == IF op.kind = "wait" THEN ClearFn(handle) ELSE noop
    IN  /\ timers' = IF op.kind = "wait" THEN timers \cup {handle} ELSE timers
        /\ lastCancelFn' = cancel
        /\ listeners' = addEventListener(ls, sig, cancel)
        /\ promise' = Pending
        /\ index' = i
        /\ pc' = "awaiting"
        /\ abort' = sig
        /\ UNCHANGED <<operationQueue, inputs>>

\* the loop from position i: the next operation if there is one, else
\* the code after the loop
Loop(i, ls, sig) ==
    IF HasPosition(i)
    THEN /\ Invoke(i, ls, sig)
         /\ result' = NoResult
         /\ isExecuting' = TRUE
    ELSE ReturnInputs(ls, sig)

\* do(abort), to its first await or, with an empty queue, to its end
do(sig) ==
    /\ pc = "idle"
    /\ Loop(1, listeners, sig)
    /\ started' = operationQueue
    /\ invoked' = IF HasPosition(1) THEN <<1>> ELSE <<>>
    /\ effects' = IF HasPosition(1) THEN <<Effect(operationQueue[1])>> ELSE <<>>
    /\ outstanding' = IF HasPosition(1) THEN outstanding + 1 ELSE outstanding
    /\ sourceLog' = <<>>
    /\ previous' = result.kind
    /\ activated' = IF sig /\ aborted THEN ActivatedBefore ELSE NoActivation
    /\ previousLines' = Len(sourceLog)
    /\ call' = NoCall
    /\ UNCHANGED <<time, aborted>>

\* the continuation of do after `await promise`
doResume ==
    /\ pc = "awaiting"
    /\ Settled(promise)
    /\ IF promise.state # "rejected"
       THEN LET ls == removeEventListener(listeners, abort, lastCancelFn)
                next == NextPosition(index)
            IN  /\ Loop(next, ls, abort)
                /\ invoked' = IF HasPosition(next) THEN Append(invoked, next) ELSE invoked
                /\ effects' = IF HasPosition(next)
                              THEN Append(effects, Effect(operationQueue[next]))
                              ELSE effects
                /\ outstanding' = IF HasPosition(next) THEN outstanding + 1
                                  ELSE outstanding
       ELSE /\ IF IsDelayedWriterError(promise.reason)
               THEN ReturnInputs(listeners, abort)
               ELSE Rethrow(listeners, abort, promise.reason)
            /\ UNCHANGED <<invoked, effects, outstanding>>
    /\ call' = NoCall
    /\ UNCHANGED <<time, aborted, started, sourceLog, previous, activated, previousLines>>

-----------------------------------------------------------------------------
(* The host: timers, the signal, the sink, the source *)

\* seeded fault: reject and resolve also act on a settled promise
SettleAlways(fn, p) ==
    IF pc = "awaiting" /\ fn = lastCancelFn THEN p ELSE promise

\* the in-flight promise after the promise made with cancel callback fn is
\* resolved or rejected with outcome p: a settled promise keeps its state
Settle(fn, p) ==
    IF pc = "awaiting" /\ fn = lastCancelFn /\ promise.state = "pending"
    THEN p ELSE promise

Settles(fn) == pc = "awaiting" /\ fn = lastCancelFn /\ promise.state = "pending"

\* the timer with handle h elapses: setTimeout calls resolve
timerFires(h) ==
    /\ h \in timers
    /\ timers' = timers \ {h}
    /\ promise' = Settle(ClearFn(h), Fulfilled)
    /\ outstanding' = IF Settles(ClearFn(h)) THEN outstanding - 1 ELSE outstanding
    /\ call' = NoCall
    /\ UNCHANGED <<operationQueue, time, isExecuting, inputs, pc, abort, index,
                   lastCancelFn, aborted, listeners, started, invoked, effects,
                   sourceLog, result, previous, activated, previousLines>>

\* seeded fault: the timer is left running
clearTimeoutForgotten(tm, h) == tm

\* clearFn of the timer with handle h: clearTimeout(handle), then reject
clearTimeout(tm, h) == tm \ {h}

\* the timers left once every listener in ls has run
RECURSIVE ClearAll(_, _)
ClearAll(tm, ls) ==
    IF ls = {} THEN tm
    ELSE LET fn == CHOOSE f \in ls : TRUE
         IN  ClearAll(IF fn.fn = "clearFn" THEN clearTimeout(tm, fn.handle) ELSE tm,
                      ls \ {fn})

\* the signal activates, once: every registered listener runs
signalAbort ==
    /\ ~aborted
    /\ pc = "idle" \/ abort
    /\ aborted' = TRUE
    /\ timers' = ClearAll(timers, listeners)
    /\ LET hit == lastCancelFn \in listeners /\ lastCancelFn.fn = "clearFn"
       IN  /\ promise' = IF hit THEN Settle(lastCancelFn, Rejected(CanceledError))
                         ELSE promise
           /\ outstanding' = IF hit /\ Settles(lastCancelFn) THEN outstanding - 1
                             ELSE outstanding
    /\ activated' = IF pc = "awaiting" /\ abort
                    THEN [index |-> index, state |-> promise.state]
                    ELSE activated
    /\ call' = NoCall
    /\ UNCHANGED <<operationQueue, time, isExecuting, inputs, pc, abort, index,
                   lastCancelFn, listeners, started, invoked, effects, sourceLog,
                   result, previous, previousLines>>

\* the caller makes a new AbortController between two do calls
newSignal ==
    /\ pc = "idle"
    /\ aborted
    /\ aborted' = FALSE
    /\ listeners' = {}
    /\ call' = NoCall
    /\ UNCHANGED <<operationQueue, time, isExecuting, inputs, pc, abort, index,
                   lastCancelFn, promise, timers, started, invoked, effects,
                   sourceLog, outstanding, result, previous, activated, previousLines>>

InFlight(kind) ==
    /\ pc = "awaiting"
    /\ promise.state = "pending"
    /\ operationQueue[index].kind = kind

\* the sink settles writer.write(...)
writeSettles(p) ==
    /\ InFlight("text")
    /\ promise' = p
    /\ outstanding' = outstanding - 1
    /\ call' = NoCall
    /\ UNCHANGED <<operationQueue, time, isExecuting, inputs, pc, abort, index,
                   lastCancelFn, aborted, listeners, timers, started, invoked,
                   effects, sourceLog, result, previous, activated, previousLines>>

\* seeded fault: the line is put in front
collectFirst(ins, value) == <<decode(value)>> \o ins

\* this.inputs.push(this.decoder.decode(value))
collect(ins, value) == Append(ins, decode(value))

\* the source yields `value`: the then-callback decodes and collects it
readCompletes(value) ==
    /\ InFlight("input")
    /\ inputs' = collect(inputs, value)
    /\ sourceLog' = Append(sourceLog, value)
    /\ promise' = Fulfilled
    /\ outstanding' = outstanding - 1
    /\ call' = NoCall
    /\ UNCHANGED <<operationQueue, time, isExecuting, pc, abort, index,
                   lastCancelFn, aborted, listeners, timers, started, invoked,
                   effects, result, previous, activated, previousLines>>

\* it.next() rejects: the then-callback does not run
readFails(err) ==
    /\ InFlight("input")
    /\ promise' = Rejected(err)
    /\ outstanding' = outstanding - 1
    /\ call' = NoCall
    /\ UNCHANGED <<operationQueue, time, isExecuting, inputs, pc, abort, index,
                   lastCancelFn, aborted, listeners, timers, started, invoked,
                   effects, sourceLog, result, previous, activated, previousLines>>

-----------------------------------------------------------------------------
(* Specifications *)

\* new DelayedWriter(reader, writer, t)
Constructed(t) ==
    /\ operationQueue = <<>>
    /\ time = t
    /\ isExecuting = FALSE
    /\ inputs = <<>>
    /\ pc = "idle"
    /\ abort = FALSE
    /\ index = 0
    /\ lastCancelFn = NoFn
    /\ promise = Fulfilled
    /\ aborted = FALSE
    /\ listeners = {}
    /\ timers = {}
    /\ started = <<>>
    /\ invoked = <<>>
    /\ effects = <<>>
    /\ sourceLog = <<>>
    /\ outstanding = 0
    /\ result = NoResult
    /\ previous = "none"
    /\ activated = NoActivation
    /\ previousLines = 0
    /\ call = NoCall

Init == Constructed(DefaultTime)

Prompts == {Omitted} \cup {Given(t) : t \in Texts}

\* the builder arguments of the runs of do: they give every kind of operation
\* in every order
RunTimes == {Given(d) : d \in Durations}
RunTexts == {<<"a">>}
RunPrompts == {Omitted} \cup {Given(t) : t \in RunTexts}

Next ==
    \/ \E arg \in RunTimes :
          wait(arg) /\ Len(operationQueue') <= MaxQueue
    \/ \E text \in RunTexts, arg \in RunTimes :
          write(text, arg) /\ Len(operationQueue') <= MaxQueue
    \/ \E prompt \in RunPrompts, arg \in RunTimes :
          input(prompt, arg) /\ Len(operationQueue') <= MaxQueue
    \/ \E sig \in BOOLEAN : do(sig)
    \/ doResume
    \/ \E h \in timers : timerFires(h)
    \/ signalAbort
    \/ newSignal
    \/ writeSettles(Fulfilled)
    \/ \E err \in IOErrors : writeSettles(Rejected(err))
    \/ \E value \in SourceValues : readCompletes(value)
    \/ \E err \in IOErrors : readFails(err)

Spec == Init /\ [][Next]_vars

\* The builders alone, with every text and duration.  A sequencer starts as
\* the constructor leaves it, with the caller's `time`, or midway in
\* wait(3).do(), where the builders must refuse.
InitBuild ==
    \/ \E t \in {DefaultTime} \cup Durations : Constructed(t)
    \/ /\ operationQueue = <<WaitOp(3)>>
       /\ time = 3
       /\ isExecuting = TRUE
       /\ inputs = <<>>
       /\ pc = "awaiting"
       /\ abort = FALSE
       /\ index = 1
       /\ lastCancelFn = ClearFn(1)
       /\ promise = Pending
       /\ aborted = FALSE
       /\ listeners = {}
       /\ timers = {1}
       /\ started = <<WaitOp(3)>>
       /\ invoked = <<1>>
       /\ effects = <<Effect(WaitOp(3))>>
       /\ sourceLog = <<>>
       /\ outstanding = 1
       /\ result = NoResult
       /\ previous = "none"
       /\ activated = NoActivation
       /\ previousLines = 0
       /\ call = NoCall

NextBuild ==
    \/ \E arg \in OptTimes :
          wait(arg) /\ Len(operationQueue') <= MaxBuilt
    \/ \E text \in Texts, arg \in OptTimes :
          write(text, arg) /\ Len(operationQueue') <= MaxBuilt
    \/ \E prompt \in Prompts, arg \in OptTimes :
          input(prompt, arg) /\ Len(operationQueue') <= MaxBuilt

SpecBuild == InitBuild /\ [][NextBuild]_vars

\* A caller that supplies no signal, a sink and a source that never fail.
\* The event loop runs every timer that is due and every continuation that
\* is ready; the sink and the source complete what they were asked.
NextLive ==
    \/ \E arg \in RunTimes :
          wait(arg) /\ Len(operationQueue') <= MaxQueue
    \/ \E text \in RunTexts, arg \in RunTimes :
          write(text, arg) /\ Len(operationQueue') <= MaxQueue
    \/ \E prompt \in RunPrompts, arg \in RunTimes :
          input(prompt, arg) /\ Len(operationQueue') <= MaxQueue
    \/ do(FALSE)
    \/ doResume
    \/ \E h \in timers : timerFires(h)
    \/ writeSettles(Fulfilled)
    \/ \E value \in SourceValues : readCompletes(value)

SpecLive ==
    /\ Init
    /\ [][NextLive]_vars
    /\ WF_vars(doResume)
    /\ WF_vars(\E h \in timers : timerFires(h))
    /\ WF_vars(writeSettles(Fulfilled))
    /\ WF_vars(\E value \in SourceValues : readCompletes(value))

-----------------------------------------------------------------------------
(* Properties *)

Positions(n) == [i \in 1..n |-> i]

\* the number of request-line operations among the first n of queue
RECURSIVE NumInputs(_, _)
NumInputs(queue, n) ==
    IF n = 0 THEN 0
    ELSE NumInputs(queue, n - 1) + (IF queue[n].kind = "input" THEN 1 ELSE 0)

\* the text of a line as the caller reads it
LineText(value) == IF value = "undefined" THEN "" ELSE "text:" \o value
LineTexts(values) == [i \in 1..Len(values) |-> LineText(values[i])]

\* a do call is in flight: started and neither returned nor thrown
DoInFlight == pc = "awaiting"
\* a do call has ended and no builder call or do call came after it
DoEnded == result.kind \in {"resolved", "rejected"}

\* C1: during a do call the factories are invoked in the order of the queue,
\* the factory of the next operation is invoked only once the pending result
\* of the one before has settled, and at most one pending result is
\* outstanding at any time.
C1_InOrderOneAtATime ==
    /\ [](invoked = Positions(Len(invoked)) /\ outstanding <= 1)
    /\ [][invoked' # invoked /\ invoked' # <<>>
            => /\ outstanding = 0
               /\ outstanding' = 1
               /\ effects' = [i \in 1..Len(invoked') |->
                                 Effect(operationQueue[invoked'[i]])]]_vars

\* C1 witness: the second operation is in flight after the first has settled.
C1_Witness ==
    DoInFlight /\ promise.state = "pending" /\ invoked = <<1, 2>> /\ Len(started) = 3

\* C2: when do has returned or thrown, on every exit path, the sequencer is
\* idle and its queue is empty, whatever position execution had reached.
C2_IdleAndEmptyAfterDo ==
    DoEnded => pc = "idle" /\ ~isExecuting /\ operationQueue = <<>>

\* C2 witness: do has thrown after the first of three operations failed.
C2_Witness ==
    result.kind = "rejected" /\ Len(started) = 3 /\ Len(invoked) = 1

\* C3: a builder call made while a do call is in flight ends with the misuse
\* error and leaves the queue as it was; the running do executes the
\* operations queued when it started.
C3_BuilderGuard ==
    /\ [](DoInFlight => /\ operationQueue = started
                        /\ effects = [i \in 1..Len(invoked) |-> Effect(started[i])])
    /\ [][DoInFlight /\ call'.kind # "none"
            => /\ call'.outcome = "misuse"
               /\ operationQueue' = operationQueue
               /\ time' = time]_vars

\* C3 witness: a builder call was refused while the second operation was in flight.
C3_Witness ==
    DoInFlight /\ call.outcome = "misuse" /\ Len(invoked) = 2

\* C4: the canceled condition never reaches the caller of do: when the
\* pending result in flight fails with it, do resolves with the lines of the
\* reads that completed before, in order.
C4_CancelResolves ==
    /\ [](result.reason # CanceledError)
    /\ [][DoInFlight /\ promise = Rejected(CanceledError) /\ pc' = "idle"
            => result' = Resolved(LineTexts(sourceLog))]_vars

\* C4 witness: do was canceled at its third operation after two reads.
C4_Witness ==
    /\ result.kind = "resolved"
    /\ aborted
    /\ Len(sourceLog) = 2
    /\ result.value = LineTexts(sourceLog)
    /\ Len(started) = 3
    /\ started[3].kind = "wait"

\* C5: when the signal activates while a wait is in flight its timer is
\* stopped, no operation queued after it is instantiated, and do returns
\* without waiting for the remaining waits.
C5_CancelStopsWait ==
    /\ [][abort /\ ~aborted /\ aborted' /\ DoInFlight
          /\ promise.state = "pending" /\ operationQueue[index].kind = "wait"
            => /\ lastCancelFn.handle \notin timers'
               /\ promise' = Rejected(CanceledError)]_vars
    /\ [][DoInFlight /\ promise = Rejected(CanceledError)
            => /\ invoked' = invoked
               /\ effects' = effects
               /\ timers' = timers
               /\ pc' # pc => pc' = "idle" /\ result'.kind = "resolved"]_vars
    /\ [](DoInFlight /\ promise = Rejected(CanceledError) => ENABLED doResume)

\* C5 witness: do has returned after the signal stopped the first of three waits.
C5_Witness ==
    /\ result.kind = "resolved"
    /\ Len(started) = 3
    /\ \A i \in 1..3 : started[i].kind = "wait"
    /\ invoked = <<1>>
    /\ timers = {}

\* C6: when the pending result of the k-th operation fails with a failure of
\* the sink or the source, do rejects with that failure, no later operation
\* is instantiated, and the queue is then empty and the sequencer idle.
C6_FailurePropagates ==
    [][DoInFlight /\ promise.state = "rejected" /\ promise.reason \in IOErrors
        => /\ invoked' = invoked
           /\ effects' = effects
           /\ pc' # pc => /\ result' = Threw(promise.reason)
                          /\ operationQueue' = <<>>
                          /\ ~isExecuting'
                          /\ pc' = "idle"]_vars

\* C6 witness: do rejected with the failure of the second of three operations.
C6_Witness ==
    /\ result.kind = "rejected"
    /\ result.reason = "BadResource"
    /\ Len(started) = 3
    /\ invoked = <<1, 2>>
    /\ started[2].kind = "text"

\* C7: a do call that follows an ended do call, with no builder call in
\* between, starts no timer, write or read and returns an empty list.
C7_SecondDoIsEmpty ==
    previous # "none"
        => /\ pc = "idle"
           /\ result = Resolved(<<>>)
           /\ started = <<>>
           /\ effects = <<>>
           /\ invoked = <<>>

\* C7 witness: a do call has followed one that threw.
C7_Witness == previous = "rejected" /\ result.kind = "resolved"

\* C8: a do call that ends without failure returns one decoded line per
\* request-line operation that completed, in the order of those operations.
C8_InputsInOrder ==
    result.kind = "resolved"
        => /\ result.value = LineTexts(sourceLog)
           /\ Len(result.value) = NumInputs(started, Len(invoked))

\* C8 witness: two reads gave two different lines.
C8_Witness ==
    /\ result.kind = "resolved"
    /\ Len(result.value) = 2
    /\ result.value[1] # result.value[2]

\* C9: without a signal and without failures every do call ends, resolved,
\* having executed every queued operation and returning the line of every
\* queued input.
C9_DoTerminates ==
    /\ (DoInFlight ~> (pc = "idle" /\ result.kind = "resolved"))
    /\ [](DoEnded => /\ result.kind = "resolved"
                     /\ invoked = Positions(Len(started))
                     /\ effects = [i \in 1..Len(started) |-> Effect(started[i])]
                     /\ result.value = LineTexts(sourceLog)
                     /\ Len(result.value) = NumInputs(started, Len(started)))

\* C9 witness: a do call over three operations, two of them reads, has resolved.
C9_Witness ==
    /\ result.kind = "resolved"
    /\ Len(started) = 3
    /\ Len(result.value) = 2

\* the operations C10 states for a text and a delay: for each character in
\* order, a wait of the delay and the emit of the character
RECURSIVE Paced(_, _)
Paced(text, delay) ==
    IF text = <<>> THEN <<>>
    ELSE <<WaitOp(delay), TextOp(<<Head(text)>>)>> \o Paced(Tail(text), delay)

\* a write call with duration d # 0 has just returned
WroteWith(c) == c.kind = "write" /\ c.outcome = "ok"

\* C10: write(text, duration) with a duration other than 0 and a text of n
\* characters appends, for each character in order, a wait of
\* floor(duration / n) and an emit of the character.
C10_WritePaced ==
    [][WroteWith(call') /\ time' # 0 /\ call'.text # <<>>
        => operationQueue' =
              operationQueue \o Paced(call'.text, time' \div Len(call'.text))]_vars

\* the operations C11 states for a text and a delay: the emit of the first
\* character, then a wait of the delay before the emit of each further one
PacedAfterFirst(text, delay) ==
    IF text = <<>> THEN <<>>
    ELSE <<TextOp(<<Head(text)>>)>> \o Paced(Tail(text), delay)

\* C11: write(text, duration) with a duration other than 0 and a text of
\* n >= 1 characters appends 2n-1 operations: the emit of the first character
\* with no wait before it, then a wait and an emit for each further character.
C11_NoWaitBeforeFirst ==
    [][WroteWith(call') /\ time' # 0 /\ call'.text # <<>>
        => /\ Len(operationQueue') = Len(operationQueue) + 2 * Len(call'.text) - 1
           /\ operationQueue' =
                 operationQueue \o
                 PacedAfterFirst(call'.text, time' \div Len(call'.text))]_vars

\* a write or an input call has just returned
Added(c, kind) == c.kind = kind /\ c.outcome = "ok"

\* C12: write(text, 0) appends one operation, the emit of the whole text, and
\* no wait; input(prompt, 0) with a prompt that is not empty appends that one
\* emit and one request-line operation.
C12_ZeroDuration ==
    [][time' = 0
        => /\ Added(call', "write")
              => operationQueue' = Append(operationQueue, TextOp(call'.text))
           /\ Added(call', "input") /\ call'.hasText /\ call'.text # <<>>
              => operationQueue' =
                    operationQueue \o <<TextOp(call'.text), InputOp>>]_vars

\* C12 witness: input(prompt, 0) with a prompt of two characters has added
\* two operations to a queue that had one.
C12_Witness ==
    /\ Added(call, "input")
    /\ time = 0
    /\ Len(call.text) = 2
    /\ Len(operationQueue) = 3
    /\ operationQueue[2].kind = "text"

\* what the factories at positions 1..n of queue start when invoked in order
EffectsOf(queue, n) == [i \in 1..n |-> Effect(queue[i])]

\* C13: a builder call starts no timer, issues no write and no read; a timer,
\* write or read begins only when do invokes the factory at the next position
\* of the queue; the operations that cancellation or failure dropped have
\* started nothing and are no longer queued.
C13_NoEffectBeforeDo ==
    /\ [][call'.kind # "none"
            => /\ timers' = timers
               /\ outstanding' = outstanding
               /\ effects' \in {effects, <<>>}]_vars
    /\ [][\/ outstanding' > outstanding
          \/ \E h \in timers' : h \notin timers
          \/ Len(effects') > Len(effects)
            => /\ DoInFlight'
               /\ Len(invoked') = Len(effects) + 1
               /\ index' = Len(invoked')
               /\ effects' = EffectsOf(operationQueue', Len(invoked'))]_vars
    /\ [](DoEnded => /\ effects = EffectsOf(started, Len(invoked))
                     /\ operationQueue = <<>>
                     /\ timers = {}
                     /\ outstanding = 0)

\* C13 witness: do has thrown at the second of three operations; the wait
\* after it was dropped and no timer is pending.
C13_Witness ==
    /\ result.kind = "rejected"
    /\ Len(started) = 3
    /\ started[3].kind = "wait"
    /\ Len(effects) = 2
    /\ timers = {}

\* the signal activated while the request-line operation now at `index` was
\* in flight and its read pending
ActivatedDuringRead ==
    /\ DoInFlight
    /\ activated.index = index
    /\ activated.state = "pending"
    /\ operationQueue[index].kind = "input"

\* C14: when the signal activates while a read is pending the read is not
\* interrupted and its line is collected; once the read has completed do
\* stops: it instantiates no operation queued after the read and returns.
C14_CancelAfterRead ==
    [][ActivatedDuringRead
        => /\ promise' # Rejected(CanceledError)
           /\ promise.state = "fulfilled"
              => /\ invoked' = invoked
                 /\ pc' # pc => /\ pc' = "idle"
                                /\ result' = Resolved(LineTexts(sourceLog))]_vars

\* the half of C14 that the code keeps: the read is not interrupted, and do
\* returns its line
C14_ReadNotInterrupted ==
    [][ActivatedDuringRead
        => /\ promise' # Rejected(CanceledError)
           /\ pc' = "idle" /\ result'.kind = "resolved"
              => result'.value = LineTexts(sourceLog)]_vars

\* C15: during a do call with a signal exactly one cancel callback is
\* registered, that of the operation in flight; during a do call without a
\* signal, and whenever no do call is in flight, none is registered.
C15_OneCancelRegistered ==
    /\ Cardinality(listeners) <= 1
    /\ DoInFlight => listeners = (IF abort THEN {lastCancelFn} ELSE {})
    /\ DoInFlight /\ abort /\ operationQueue[index].kind = "wait"
          => lastCancelFn.fn = "clearFn"
    /\ pc = "idle" => listeners = {}

\* C15 witness: the second wait of a do call with a signal is in flight and
\* its cancel is the registered callback.
C15_Witness ==
    /\ DoInFlight
    /\ abort
    /\ Len(invoked) = 2
    /\ started[1].kind = "wait"
    /\ started[2].kind = "wait"
    /\ listeners = {lastCancelFn}
    /\ promise.state = "pending"

\* C16: when the signal activates, a pending result that has settled keeps
\* its outcome; the only pending result the activation changes is that of
\* the wait in flight, which fails with the canceled condition; no operation
\* is instantiated or ended by the activation.
C16_OnlyInFlightCanceled ==
    [][~aborted /\ aborted'
        => /\ promise.state # "pending" => promise' = promise
           /\ promise' # promise
              => /\ DoInFlight
                 /\ operationQueue[index].kind = "wait"
                 /\ promise' = Rejected(CanceledError)
           /\ invoked' = invoked
           /\ result' = result
           /\ inputs' = inputs]_vars

\* C16 witness: the signal activated after the timer of the wait in flight
\* had elapsed, and the wait is still fulfilled.
C16_Witness ==
    /\ DoInFlight
    /\ activated.index = index
    /\ activated.state = "fulfilled"
    /\ operationQueue[index].kind = "wait"
    /\ promise = Fulfilled

\* C17: the list a do call returns holds the lines read during that call and
\* no others; between do calls no collected line is kept.
C17_OnlyThisRunsLines ==
    /\ pc = "idle" => inputs = <<>>
    /\ DoInFlight => inputs = LineTexts(sourceLog)
    /\ result.kind = "resolved" => result.value = LineTexts(sourceLog)
    /\ result.kind = "resolved" /\ previous # "none" => result.value = <<>>

\* C17 witness: a do call that read a line and then threw was followed by a
\* do call that returned no line.
C17_Witness ==
    /\ previous = "rejected"
    /\ previousLines >= 1
    /\ result = Resolved(<<>>)

\* C18: a builder call that succeeds with a duration sets the default
\* interval to it; one that omits the duration leaves the default interval
\* unchanged and uses it: wait queues a wait of it, write paces with it.
C18_DefaultInterval ==
    [][call'.outcome = "ok"
        => /\ time' = (IF call'.arg.given THEN call'.arg.v ELSE time)
           /\ call'.kind = "wait"
              => operationQueue' = Append(operationQueue, WaitOp(time'))
           /\ call'.kind = "write" /\ ~call'.arg.given /\ time # 0
              => operationQueue' =
                    operationQueue \o
                    Paced(call'.text, delayBetweenLetters(time, call'.text))
           /\ call'.kind = "write" /\ ~call'.arg.given /\ time = 0
              => operationQueue' = Append(operationQueue, TextOp(call'.text))]_vars

\* C18 witness: wait(0), wait(3), wait() have queued waits of 0, 3 and 3.
C18_Witness ==
    /\ call = OkCall("wait", <<>>, FALSE, Omitted)
    /\ time = 3
    /\ operationQueue = <<WaitOp(0), WaitOp(3), WaitOp(3)>>

\* C19: in a do call whose signal was activated before the call no pending
\* result fails with the canceled condition, and the call ends only by a
\* failure of the sink or the source or after every queued operation was
\* instantiated in order.
C19_ActivatedBeforeDo ==
    activated = ActivatedBefore
        => /\ promise # Rejected(CanceledError)
           /\ invoked = Positions(Len(invoked))
           /\ DoInFlight => abort /\ aborted
           /\ result.kind = "resolved"
              => /\ invoked = Positions(Len(started))
                 /\ effects = EffectsOf(started, Len(started))

\* C19 witness: a do call over three waits with a signal activated
\* beforehand has run all three and returned.
C19_Witness ==
    /\ activated = ActivatedBefore
    /\ result.kind = "resolved"
    /\ Len(started) = 3
    /\ \A i \in 1..3 : started[i].kind = "wait"
    /\ invoked = <<1, 2, 3>>

\* C20: whenever no do call is in flight no timer of a wait is pending; during
\* a do call the only timer that can be pending is that of the wait in flight.
C20_NoTimerWhenIdle ==
    /\ pc = "idle" => timers = {}
    /\ DoInFlight => timers \subseteq {lastCancelFn.handle}

\* C20 witness: the signal stopped the second of three waits and do has
\* returned with no timer left.
C20_Witness ==
    /\ result.kind = "resolved"
    /\ aborted
    /\ Len(started) = 3
    /\ \A i \in 1..3 : started[i].kind = "wait"
    /\ invoked = <<1, 2>>
    /\ timers = {}

=============================================================================
